---- MODULE Spec2Model ----
\* libdragon-docker, index.js: the command-line wrapper that drives one named
\* toolchain container through the container engine.
\*
\* Strings of the program are modelled as sequences of words (a command line is
\* the sequence of its words; a path is the sequence of its segments; a path
\* printed as text is the sequence of its segments and separators).
EXTENDS Integers, Sequences, FiniteSets, TLC

VARIABLES
  argv,        \* process.argv: <<node, script, user arguments...>>
  isDocker,    \* process.env.IS_DOCKER === 'true'
  pathSep,     \* path.sep of the host: "/" or "\\"
  options,     \* the options object (index.js 14-24), mutated by the flags
  index,       \* position of process.argv.forEach (0-based, as in the code)
  proc,        \* "dispatch" (forEach running), "loop" (event loop), "exited"
  exitCode,    \* process exit status, "none" while the process runs
  tasks,       \* one record per argv position: the action invoked there, if any
  containers,  \* the container engine's containers
  nextId,      \* number of containers the engine has created so far
  tr,          \* scratch of the path-translation specification (SpecPath)
  listing      \* standard output of the listing in SpecListing, else empty

vars == <<argv, isDocker, pathSep, options, index, proc, exitCode, tasks,
          containers, nextId, tr, listing>>

-----------------------------------------------------------------------------
\* Bounds of the model

\* Number of user arguments after the script path.
MaxArgs == 2

\* Longest host path, in segments below the mount path, of SpecPath.
MaxDepth == 3

-----------------------------------------------------------------------------
\* Program constants (index.js 7-11)

BASE_VERSION == "toolchain"

DOCKER_HUB_NAME == "anacierdem/libdragon"

UPDATE_LATEST == TRUE

\* const { version } = require('./package.json')
version == "version"

\* The keys of availableActions (index.js 132-264).
Verbs == {"start", "download", "init", "install", "make", "stop",
          "buildDragon", "update"}

\* Names that availableActions[val] finds on Object.prototype: functions that
\* are no action and return no promise.
PrototypeFunctions == {"toString"}

\* The values a user argument takes in the model.
UserArgs == Verbs \cup PrototypeFunctions \cup
            {"--byte-swap", "--mount-path=..", "--help", "-C"}

\* process.cwd()
Cwd == <<"home", "proj">>

\* Values of npm_package_name (the default is 'libdragon').
ProjectNames == {"libdragon", "game"}

-----------------------------------------------------------------------------
\* Sequences

Last(s) == s[Len(s)]

Front(s) == SubSeq(s, 1, Len(s) - 1)

Range(s) == {s[i] : i \in 1..Len(s)}

\* All sequences over S of length at most n.
SeqsUpTo(S, n) == UNION {[1..k -> S] : k \in 0..n}

\* _.uniq: the first occurrence of each element, in order.
RECURSIVE Uniq(_)
Uniq(s) ==
  IF s = <<>> THEN <<>>
  ELSE LET r == Uniq(Front(s))
       IN IF Last(s) \in Range(r) THEN r ELSE Append(r, Last(s))

-----------------------------------------------------------------------------
\* Paths (node's path module, as index.js 194-203 and 272-275 use it)

\* Host paths are sequences of segments below the filesystem root.
\* path.join / path.normalize on the host: "." and ".." are resolved.
RECURSIVE NormalizeSegs(_)
NormalizeSegs(segs) ==
  IF segs = <<>> THEN <<>>
  ELSE LET r == NormalizeSegs(Front(segs))
           s == Last(segs)
       IN IF s = "." THEN r
          ELSE IF s = ".." THEN (IF r = <<>> THEN <<>> ELSE Front(r))
          ELSE Append(r, s)

\* Length of the longest common prefix of two segment sequences.
RECURSIVE CommonLen(_, _)
CommonLen(a, b) ==
  IF a = <<>> \/ b = <<>> \/ Head(a) # Head(b) THEN 0
  ELSE 1 + CommonLen(Tail(a), Tail(b))

\* path.relative(from, to) as segments: one ".." per segment of `from` below
\* the common prefix, then the rest of `to`.
Relative(from, to) ==
  LET k == CommonLen(from, to)
  IN [i \in 1..(Len(from) - k) |-> ".."] \o SubSeq(to, k + 1, Len(to))

\* The text of a segment sequence: the segments with `sep` between them.
RECURSIVE JoinWith(_, _)
JoinWith(segs, sep) ==
  IF segs = <<>> THEN <<>>
  ELSE IF Len(segs) = 1 THEN <<segs[1]>>
  ELSE <<segs[1], sep>> \o JoinWith(Tail(segs), sep)

\* String.prototype.replace(new RegExp('\\' + sep), to): the pattern has no
\* g flag, so the first match only is replaced.
RECURSIVE ReplaceFirst(_, _, _)
ReplaceFirst(text, sep, to) ==
  IF text = <<>> THEN <<>>
  ELSE IF Head(text) = sep THEN <<to>> \o Tail(text)
  ELSE <<Head(text)>> \o ReplaceFirst(Tail(text), sep, to)

\* text.split(c): the pieces between the occurrences of c.
RECURSIVE SplitOn(_, _)
SplitOn(text, c) ==
  IF text = <<>> THEN << <<>> >>
  ELSE LET r == SplitOn(Front(text), c)
       IN IF Last(text) = c THEN Append(r, <<>>)
          ELSE [r EXCEPT ![Len(r)] = Append(@, Last(text))]

\* path.posix.normalize on the pieces of a text: empty pieces and "." go,
\* ".." removes the piece before it (or is dropped at the root).
RECURSIVE PosixCollapse(_, _)
PosixCollapse(pieces, absolute) ==
  IF pieces = <<>> THEN <<>>
  ELSE LET r == PosixCollapse(Front(pieces), absolute)
           s == Last(pieces)
       IN IF s = <<>> \/ s = <<".">> THEN r
          ELSE IF s = <<"..">> THEN
                 (IF r # <<>> /\ Last(r) # <<"..">> THEN Front(r)
                  ELSE IF absolute THEN r ELSE Append(r, s))
          ELSE Append(r, s)

RECURSIVE JoinPieces(_)
JoinPieces(pieces) ==
  IF pieces = <<>> THEN <<>>
  ELSE IF Len(pieces) = 1 THEN pieces[1]
  ELSE pieces[1] \o <<"/">> \o JoinPieces(Tail(pieces))

PosixNormalize(text) ==
  IF text = <<>> THEN <<".">>
  ELSE LET absolute == text[1] = "/"
           trailing == Last(text) = "/"
           body == JoinPieces(PosixCollapse(SplitOn(text, "/"), absolute))
       IN IF body = <<>> THEN (IF absolute THEN <<"/">> ELSE <<".">>)
          ELSE (IF absolute THEN <<"/">> ELSE <<>>) \o body \o
               (IF trailing THEN <<"/">> ELSE <<>>)

\* path.posix.join(...parts): the non-empty parts joined with "/", normalized.
RECURSIVE PosixGlue(_)
PosixGlue(parts) ==
  IF parts = <<>> THEN <<>>
  ELSE IF Head(parts) = <<>> THEN PosixGlue(Tail(parts))
  ELSE LET rest == PosixGlue(Tail(parts))
       IN IF rest = <<>> THEN Head(parts) ELSE Head(parts) \o <<"/">> \o rest

PosixJoin(parts) == PosixNormalize(PosixGlue(parts))

\* index.js 194-196: the dependency's path relative to the mount path, with
\* the host separator replaced.
RelativePath(sep, mountPath, hostPath) ==
  ReplaceFirst(JoinWith(Relative(mountPath, hostPath), sep), sep, "/")

\* index.js 197-202
ContainerPath(sep, mountPath, projectName, hostPath) ==
  PosixJoin(<< <<"/">>, <<projectName>>,
               RelativePath(sep, mountPath, hostPath), <<"/">> >>)

\* index.js 203
MakePath(containerPath) == PosixJoin(<<containerPath, <<"Makefile">> >>)

-----------------------------------------------------------------------------
\* Options (index.js 14-24)

\* Faulty variant of SelfBuild: the project name is not looked at.
SelfBuild_AnyProject(projectName, isCI) == isCI

\* index.js 23-24
SelfBuild(projectName, isCI) ==
  IF projectName = "libdragon" THEN isCI ELSE FALSE

\* index.js 14-24: the options object after the module body has run.
DefaultOptions(projectName, isCI) ==
  [PROJECT_NAME |-> projectName,
   BYTE_SWAP    |-> FALSE,
   MOUNT_PATH   |-> Cwd,
   IS_CI        |-> isCI,
   SELF_BUILD   |-> SelfBuild(projectName, isCI)]

\* index.js 271: val.indexOf('--mount-path=') === 0
IsMountFlag(val) == val \in {"--mount-path=.."}

\* index.js 274: val.split('--mount-path=')[1], as path segments
MountFlagValue(val) == IF val = "--mount-path=.." THEN <<"..">> ELSE <<>>

-----------------------------------------------------------------------------
\* Command lines (each the sequence of its words)

Image(tag) == <<DOCKER_HUB_NAME, tag>>

\* index.js 52-54
StartLookupCmd ==
  <<"docker", "container", "ls", "-qa", "-f", "name", options.PROJECT_NAME>>

\* index.js 57
StartRemoveCmd(containerID) ==
  <<"docker", "container", "rm", "-f">> \o containerID

\* index.js 60-76
RunCmd(forceLatest) ==
  <<"docker", "run", "--name", options.PROJECT_NAME>> \o
  (IF options.BYTE_SWAP THEN <<"-e", "N64_BYTE_SWAP=true">> ELSE <<>>) \o
  <<"-e", "IS_DOCKER=true", "-d", "--mount", "source">> \o
  JoinWith(options.MOUNT_PATH, pathSep) \o
  <<"target", options.PROJECT_NAME, "-w", options.PROJECT_NAME>> \o
  Image(IF ~forceLatest /\ options.SELF_BUILD THEN BASE_VERSION ELSE version) \o
  <<"tail", "-f", "/dev/null">>

\* index.js 82
LocalMakeCmd(param) == <<"make">> \o param

\* index.js 85
DockerStartCmd == <<"docker", "start", options.PROJECT_NAME>>

\* index.js 86
DockerExecMakeCmd(param) ==
  <<"docker", "exec", options.PROJECT_NAME, "make">> \o param

\* index.js 94, 98
PullCmd(tag) == <<"docker", "pull">> \o Image(tag)

\* index.js 107-109
StopLookupCmd ==
  <<"docker", "ps", "-a", "-q", "-f", "name", options.PROJECT_NAME>>

\* index.js 111
StopRemoveCmd == <<"docker", "rm", "-f", options.PROJECT_NAME>>

\* index.js 116-127
BuildDragonCmd ==
  <<"docker", "build", "--build-arg", "DOCKER_HUB_NAME", DOCKER_HUB_NAME,
    "--build-arg", "BASE_VERSION", BASE_VERSION, "-t">> \o Image(version) \o
  <<"-f", "./dragon.Dockerfile", "./">>

\* index.js 142-144
BuildBaseCmd == <<"docker", "build", "-t">> \o Image(BASE_VERSION) \o <<"./">>

\* index.js 168-170
NpmLsCmd(dep) == <<"npm", "ls", dep, "--parseable=true">>

\* index.js 207-215: the shell line run inside the container
InstallShellLine(hostPath) ==
  LET containerPath ==
        ContainerPath(pathSep, options.MOUNT_PATH, options.PROJECT_NAME,
                      hostPath)
  IN <<"[", "-f">> \o MakePath(containerPath) \o <<"]", "&&", "make", "-C">> \o
     containerPath \o <<"&&", "make", "-C">> \o containerPath \o <<"install">>

\* index.js 217-227
InstallExecCmd(hostPath) ==
  <<"docker", "exec", options.PROJECT_NAME, "/bin/bash", "-c">> \o
  InstallShellLine(hostPath)

\* index.js 249, 261
PushCmd(tag) == <<"docker", "push">> \o Image(tag)

\* index.js 252-260
TagLatestCmd == <<"docker", "tag">> \o Image(version) \o Image("latest")

\* A command line that goes to the container engine.
IsDockerCmd(cmd) == cmd # <<>> /\ cmd[1] = "docker"

-----------------------------------------------------------------------------
\* The container engine, as the docker CLI behaves on the reserved name

Named(name) == {c \in containers : c.name = name}

\* The ids of a set of containers, one per line of a -q listing.
IdsOf(cs) ==
  CHOOSE ids \in [1..Cardinality(cs) -> {c.id : c \in cs}] :
    Range(ids) = {c.id : c \in cs}

IsLookupCmd(cmd) ==
  /\ IsDockerCmd(cmd)
  /\ \/ cmd[2] = "ps"
     \/ cmd[2] = "container" /\ cmd[3] = "ls"

IsRemoveByIdCmd(cmd) ==
  IsDockerCmd(cmd) /\ cmd[2] = "container" /\ cmd[3] = "rm"

IsRemoveByNameCmd(cmd) == IsDockerCmd(cmd) /\ cmd[2] = "rm"

IsRunCmd(cmd) == IsDockerCmd(cmd) /\ cmd[2] = "run"

IsStartCmd(cmd) == IsDockerCmd(cmd) /\ cmd[2] = "start"

IsExecCmd(cmd) == IsDockerCmd(cmd) /\ cmd[2] = "exec"

Unchanged(okay) ==
  [ok |-> okay, out |-> <<>>, containers |-> containers, nextId |-> nextId]

\* What running `cmd` to completion can do: whether it exits 0, its standard
\* output, and the engine's containers afterwards. Every command can also
\* fail for a reason of its own (engine down, network, make error).
EngineResults(cmd) ==
  {Unchanged(FALSE)} \cup
  IF IsLookupCmd(cmd) THEN
    {[Unchanged(TRUE) EXCEPT !.out = IdsOf(Named(Last(cmd)))]}
  ELSE IF IsRemoveByIdCmd(cmd) THEN
    LET ids == Range(SubSeq(cmd, 5, Len(cmd)))
        left == {c \in containers : c.id \notin ids}
        found == ids # {} /\ ids \subseteq {c.id : c \in containers}
    IN {[Unchanged(found) EXCEPT !.containers = left]}
  ELSE IF IsRemoveByNameCmd(cmd) THEN
    \* without a container of that name, rm -f fails or not by engine version
    IF Named(Last(cmd)) = {} THEN {Unchanged(TRUE)}
    ELSE {[Unchanged(TRUE) EXCEPT !.containers = containers \ Named(Last(cmd))]}
  ELSE IF IsRunCmd(cmd) THEN
    \* a name in use is a conflict: nothing is created
    IF Named(cmd[4]) # {} THEN {}
    ELSE {[Unchanged(TRUE) EXCEPT
             !.containers = containers \cup
                {[id |-> ToString(nextId + 1), name |-> cmd[4],
                  running |-> TRUE]},
             !.nextId = nextId + 1]}
  ELSE IF IsStartCmd(cmd) THEN
    IF Named(cmd[3]) = {} THEN {}
    ELSE {[Unchanged(TRUE) EXCEPT
             !.containers = (containers \ Named(cmd[3])) \cup
                {[c EXCEPT !.running = TRUE] : c \in Named(cmd[3])}]}
  ELSE IF IsExecCmd(cmd) THEN
    IF \E c \in Named(cmd[3]) : c.running THEN {Unchanged(TRUE)} ELSE {}
  ELSE {Unchanged(TRUE)}

-----------------------------------------------------------------------------
\* Actions in flight. A record per argv position holds the action invoked
\* there: its verb, where its async function is suspended (pc), and what it
\* has issued.

NoTask ==
  [verb |-> "", pc |-> "none", param |-> <<>>, force |-> FALSE,
   log |-> <<>>, failed |-> <<>>, deps |-> <<>>]

\* pcs at which the promise given to the dispatcher is settled
Settled == {"resolved", "rejected"}

\* pcs at which an await continues in a microtask: the awaited async function
\* has returned
Ready == {"ret_download", "ret_start", "ret_stop", "ret_build"}

\* pcs at which one external command is awaited
Awaiting == {"st_ls", "st_rm", "st_run", "mk_local", "mk_start", "mk_exec",
             "dl_base", "dl_version", "stop_ps", "stop_rm", "bd_build",
             "init_build", "up_push", "up_tag", "up_pushLatest"}

\* pcs of install's two Promise.all
FanOut == {"in_npm", "in_make"}

\* runCommand (index.js 26-44) called and awaited: the command is started at
\* once and the caller suspends until it exits.
Issue(t, cmd, pc) == [t EXCEPT !.log = Append(@, cmd), !.pc = pc]

\* The action's promise resolves (index.js 299-301 will run).
Resolved(t) == [t EXCEPT !.pc = "resolved"]

\* Faulty variant of Rejected: the failure is noted but the chain is not
\* left, so it goes on when the command is answered again.
Rejected_ChainGoesOn(t, cmd) == [t EXCEPT !.failed = cmd]

\* runCommand rejected (index.js 32); no function of the program catches it
\* before the dispatcher (index.js 302-304).
Rejected(t, cmd) == [t EXCEPT !.pc = "rejected", !.failed = cmd]

\* An async function called with await returns: its caller continues in a
\* microtask; called by the dispatcher, the action's promise resolves.
Return(t, fn) ==
  IF t.verb = fn THEN Resolved(t)
  ELSE [t EXCEPT !.pc = CASE fn = "start" -> "ret_start"
                          [] fn = "download" -> "ret_download"
                          [] fn = "stop" -> "ret_stop"
                          [] fn = "buildDragon" -> "ret_build"]

-----------------------------------------------------------------------------
\* The async functions, each cut at its awaits

\* startToolchain, index.js 46-54
StartToolchain(t, forceLatest) ==
  IF isDocker THEN Return(t, "start")
  ELSE Issue([t EXCEPT !.force = forceLatest], StartLookupCmd, "st_ls")

\* Faulty variant of StartAfterLookup: a container found is not removed.
StartAfterLookup_NoRemove(t, containerID) ==
  Issue(t, RunCmd(t.force), "st_run")

\* index.js 56-76, after the lookup resolved with containerID
StartAfterLookup(t, containerID) ==
  IF containerID # <<>> THEN Issue(t, StartRemoveCmd(containerID), "st_rm")
  ELSE Issue(t, RunCmd(t.force), "st_run")

\* index.js 60-76, after the remove resolved
StartAfterRemove(t) == Issue(t, RunCmd(t.force), "st_run")

\* index.js 77
StartAfterRun(t) == Return(t, "start")

\* make, index.js 79-85
Make(t, param) ==
  IF isDocker THEN Issue(t, LocalMakeCmd(param), "mk_local")
  ELSE Issue(t, DockerStartCmd, "mk_start")

\* index.js 86
MakeAfterStart(t) == Issue(t, DockerExecMakeCmd(t.param), "mk_exec")

\* download, index.js 89-94
Download(t) ==
  IF isDocker THEN Return(t, "download")
  ELSE Issue(t, PullCmd(BASE_VERSION), "dl_base")

\* Faulty variant of DownloadAfterBase: the version is pulled in a self-build
\* too.
DownloadAfterBase_Always(t) == Issue(t, PullCmd(version), "dl_version")

\* index.js 96-100
DownloadAfterBase(t) ==
  IF ~options.SELF_BUILD THEN Issue(t, PullCmd(version), "dl_version")
  ELSE Return(t, "download")

\* Faulty variant of Stop: the IS_DOCKER guard is missing.
Stop_Unguarded(t) == Issue(t, StopLookupCmd, "stop_ps")

\* stop, index.js 102-109
Stop(t) ==
  IF isDocker THEN Return(t, "stop")
  ELSE Issue(t, StopLookupCmd, "stop_ps")

\* Faulty variant of StopAfterLookup: the remove is issued whatever the
\* lookup printed.
StopAfterLookup_Always(t, list) == Issue(t, StopRemoveCmd, "stop_rm")

\* index.js 110-113
StopAfterLookup(t, list) ==
  IF list # <<>> THEN Issue(t, StopRemoveCmd, "stop_rm")
  ELSE Return(t, "stop")

\* buildDragon, index.js 115-127
BuildDragon(t) == Issue(t, BuildDragonCmd, "bd_build")

\* index.js 128-129
BuildDragonAfterBuild(t) == StartToolchain(t, TRUE)

\* initialize, index.js 135-144
Initialize(t) ==
  IF isDocker THEN Resolved(t) ELSE Issue(t, BuildBaseCmd, "init_build")

\* index.js 146-147
InitializeAfterBuild(t) == BuildDragon(t)

\* install, index.js 149-150
Install(t) == Download(t)

\* index.js 151
InstallAfterDownload(t) == StartToolchain(t, TRUE)

\* update, index.js 242-247
Update(t) == IF isDocker THEN Resolved(t) ELSE Stop(t)

\* index.js 248-249
UpdateAfterStop(t) == Issue(t, PushCmd(version), "up_push")

\* Faulty variant of UpdateAfterPush: latest is never tagged nor pushed.
UpdateAfterPush_NoLatest(t) == Resolved(t)

\* index.js 251-260
UpdateAfterPush(t) ==
  IF UPDATE_LATEST THEN Issue(t, TagLatestCmd, "up_tag") ELSE Resolved(t)

\* index.js 261-263
UpdateAfterTag(t) == Issue(t, PushCmd("latest"), "up_pushLatest")

\* functionToRun(param), index.js 293-298: the action runs up to its first
\* await. startToolchain takes the joined arguments as forceLatest.
Invoke(val, param) ==
  LET t == [NoTask EXCEPT !.verb = val, !.param = param]
  IN CASE val = "start"       -> StartToolchain(t, param # <<>>)
       [] val = "download"    -> Download(t)
       [] val = "init"        -> Initialize(t)
       [] val = "install"     -> Install(t)
       [] val = "make"        -> Make(t, param)
       [] val = "stop"        -> Stop(t)
       [] val = "buildDragon" -> BuildDragon(t)
       [] val = "update"      -> Update(t)

\* The continuation of the await on a command that exited 0 with output out.
OnResolve(t, out) ==
  CASE t.pc = "st_ls"         -> StartAfterLookup(t, out)
    [] t.pc = "st_rm"         -> StartAfterRemove(t)
    [] t.pc = "st_run"        -> StartAfterRun(t)
    [] t.pc = "mk_local"      -> Resolved(t)
    [] t.pc = "mk_start"      -> MakeAfterStart(t)
    [] t.pc = "mk_exec"       -> Resolved(t)
    [] t.pc = "dl_base"       -> DownloadAfterBase(t)
    [] t.pc = "dl_version"    -> Return(t, "download")
    [] t.pc = "stop_ps"       -> StopAfterLookup(t, out)
    [] t.pc = "stop_rm"       -> Return(t, "stop")
    [] t.pc = "bd_build"      -> BuildDragonAfterBuild(t)
    [] t.pc = "init_build"    -> InitializeAfterBuild(t)
    [] t.pc = "up_push"       -> UpdateAfterPush(t)
    [] t.pc = "up_tag"        -> UpdateAfterTag(t)
    [] t.pc = "up_pushLatest" -> Resolved(t)

\* The continuation of an await whose async function has returned, for the
\* callers that do not read package.json next.
OnReturn(t) ==
  CASE t.pc = "ret_download" -> InstallAfterDownload(t)
    [] t.pc = "ret_start"    -> Return(t, "buildDragon")
    [] t.pc = "ret_build"    -> Resolved(t)
    [] t.pc = "ret_stop"     -> UpdateAfterStop(t)

-----------------------------------------------------------------------------
\* install's dependencies (index.js 153-236)

\* Object.keys({...dependencies, ...devDependencies}) of the package.json
\* install reads: the lists the model draws from.
PackageDeps ==
  {SelectSeq(<<"libdragon", "a", "b">>, LAMBDA d : d \in S) :
     S \in SUBSET {"libdragon", "a", "b"}}

\* Install paths npm ls can print.
HostPathA == Cwd \o <<"node_modules", "a">>

HostPathB == Cwd \o <<"node_modules", "b", "node_modules", "a">>

\* npmPath.split('\n'): the lines of an npm ls output (<<>> is an empty line).
NpmOutputs ==
  { << <<>> >>,
    <<HostPathA, <<>> >>,
    <<HostPathA, HostPathA, <<>> >>,
    <<HostPathA, HostPathB, <<>> >> }

AllDeps(t, st) == \A k \in 1..Len(t.deps) : t.deps[k].st = st

\* index.js 153-170: the keys are filtered and one npm ls per dependency is
\* started; with no dependency both Promise.all resolve at once.
InstallListDeps(t, keys) ==
  LET names == SelectSeq(keys, LAMBDA dep : dep # "libdragon")
  IN IF names = <<>> THEN Resolved(t)
     ELSE [t EXCEPT
             !.log = @ \o [k \in 1..Len(names) |-> NpmLsCmd(names[k])],
             !.deps = [k \in 1..Len(names) |->
                         [name |-> names[k], st |-> "npm", paths |-> <<>>,
                          cmd |-> <<>>]],
             !.pc = "in_npm"]

\* index.js 173
PathsOf(lines) == Uniq(SelectSeq(lines, LAMBDA f : f # <<>>))

\* Faulty variant of InstallMapDeps: the count of paths is not looked at.
InstallMapDeps_NoCheck(t) ==
  IF \E k \in 1..Len(t.deps) : Len(t.deps[k].paths) = 0
    THEN Rejected(t, <<"TypeError">>)
  ELSE [t EXCEPT !.deps = [k \in 1..Len(t.deps) |->
                             [t.deps[k] EXCEPT !.st = "access"]],
                 !.pc = "in_make"]

\* index.js 178-186, the synchronous deps.map once every npm ls resolved: a
\* dependency with several paths gives a rejected promise, one with no path
\* makes path.join throw in the promise executor, the others call fs.access.
InstallMapDeps(t) ==
  IF \E k \in 1..Len(t.deps) : Len(t.deps[k].paths) > 1
    THEN Rejected(t, <<"Using same dependency with different versions is not supported!">>)
  ELSE IF \E k \in 1..Len(t.deps) : Len(t.deps[k].paths) = 0
    THEN Rejected(t, <<"TypeError">>)
  ELSE [t EXCEPT !.deps = [k \in 1..Len(t.deps) |->
                             [t.deps[k] EXCEPT !.st = "access"]],
                 !.pc = "in_make"]

\* index.js 171-176, npm ls of dependency k resolved with these lines
InstallAfterNpm(t, k, lines) ==
  LET u == [t EXCEPT !.deps[k].paths = PathsOf(lines), !.deps[k].st = "listed"]
  IN IF AllDeps(u, "listed") THEN InstallMapDeps(u) ELSE u

\* Faulty variant of InstallDepDone: install returns with the first
\* dependency that is done.
InstallDepDone_Any(t, k) == Resolved([t EXCEPT !.deps[k].st = "done"])

\* index.js 229 and 236-237: a dependency is done; install returns when all are
InstallDepDone(t, k) ==
  LET u == [t EXCEPT !.deps[k].st = "done"]
  IN IF AllDeps(u, "done") THEN Resolved(u) ELSE u

\* index.js 205-228: the command of a dependency that has a Makefile
InstallMakeCmd(hostPath) ==
  IF isDocker THEN InstallShellLine(hostPath) ELSE InstallExecCmd(hostPath)

\* index.js 186-228, the fs.access callback of dependency k
InstallAfterAccess(t, k, e) ==
  IF e THEN InstallDepDone(t, k)
  ELSE LET cmd == InstallMakeCmd(t.deps[k].paths[1])
       IN [t EXCEPT !.log = Append(@, cmd), !.deps[k].st = "make",
                    !.deps[k].cmd = cmd]

-----------------------------------------------------------------------------
\* The process

NoTranslation ==
  [sep |-> "/", mount |-> <<>>, name |-> "", host |-> <<>>, out |-> <<>>,
   done |-> FALSE]

Init ==
  /\ \E args \in SeqsUpTo(UserArgs, MaxArgs) :
       argv = <<"node", "index.js">> \o args
  /\ isDocker \in BOOLEAN
  \* inside the container the host is Linux
  /\ pathSep \in IF isDocker THEN {"/"} ELSE {"/", "\\"}
  \* a container of the reserved name may be left from an earlier run
  /\ \E name \in ProjectNames, ci \in BOOLEAN :
       /\ options = DefaultOptions(name, ci)
       /\ containers \in
            {{}} \cup {{[id |-> "0", name |-> name, running |-> r]} :
                         r \in BOOLEAN}
  /\ index = 0
  /\ proc = "dispatch"
  /\ exitCode = "none"
  /\ tasks = [i \in 0..(Len(argv) - 1) |-> NoTask]
  /\ nextId = 0
  /\ tr = NoTranslation
  /\ listing = <<>>

\* process.argv[index]
Val == argv[index + 1]

InForEach == proc = "dispatch" /\ index < Len(argv)

Env == <<argv, isDocker, pathSep, tr, listing>>

Engine == <<containers, nextId>>

\* index.js 267-269
SkipFirst ==
  /\ InForEach /\ index < 1
  /\ index' = index + 1
  /\ UNCHANGED <<Env, Engine, options, proc, exitCode, tasks>>

\* Faulty variant of MountPathFlag: the flag is consumed but not recorded.
MountPathFlag_Ignored ==
  /\ proc = "dispatch" /\ index < Len(argv)
  /\ index >= 1 /\ IsMountFlag(argv[index + 1])
  /\ index' = index + 1
  /\ UNCHANGED <<argv, isDocker, pathSep, tr, listing, containers, nextId,
                 options, proc, exitCode, tasks>>

\* index.js 271-277
MountPathFlag ==
  /\ InForEach /\ index >= 1 /\ IsMountFlag(Val)
  /\ options' = [options EXCEPT
                   !.MOUNT_PATH = NormalizeSegs(Cwd \o MountFlagValue(Val))]
  /\ index' = index + 1
  /\ UNCHANGED <<Env, Engine, proc, exitCode, tasks>>

\* Faulty variant of ByteSwapFlag: the flag is consumed but not recorded.
ByteSwapFlag_Ignored ==
  /\ proc = "dispatch" /\ index < Len(argv)
  /\ index >= 1 /\ ~IsMountFlag(argv[index + 1])
  /\ argv[index + 1] = "--byte-swap"
  /\ index' = index + 1
  /\ UNCHANGED <<argv, isDocker, pathSep, tr, listing, containers, nextId,
                 options, proc, exitCode, tasks>>

\* index.js 279-282
ByteSwapFlag ==
  /\ InForEach /\ index >= 1 /\ ~IsMountFlag(Val) /\ Val = "--byte-swap"
  /\ options' = [options EXCEPT !.BYTE_SWAP = TRUE]
  /\ index' = index + 1
  /\ UNCHANGED <<Env, Engine, proc, exitCode, tasks>>

\* index.js 284-291
HelpFlag ==
  /\ InForEach /\ index >= 1 /\ ~IsMountFlag(Val) /\ Val = "--help"
  /\ proc' = "exited"
  /\ exitCode' = "0"
  /\ UNCHANGED <<Env, Engine, options, index, tasks>>

IsFlag(val) == IsMountFlag(val) \/ val \in {"--byte-swap", "--help"}

\* index.js 293-305 for a key of availableActions
RunAction ==
  /\ InForEach /\ index >= 1 /\ ~IsFlag(Val) /\ Val \in Verbs
  /\ tasks' = [tasks EXCEPT
                 ![index] = Invoke(Val, SubSeq(argv, index + 2, Len(argv)))]
  /\ index' = index + 1
  /\ UNCHANGED <<Env, Engine, options, proc, exitCode>>

\* index.js 293-305 for a name found on Object.prototype: a function that
\* returns no promise, so .then throws out of forEach and node exits with 1.
CallInherited ==
  /\ InForEach /\ index >= 1 /\ ~IsFlag(Val) /\ Val \in PrototypeFunctions
  /\ proc' = "exited"
  /\ exitCode' = "1"
  /\ UNCHANGED <<Env, Engine, options, index, tasks>>

\* index.js 293-294 for any other value: typeof functionToRun is 'undefined'
IgnoreArg ==
  /\ InForEach /\ index >= 1 /\ ~IsFlag(Val)
  /\ Val \notin Verbs \cup PrototypeFunctions
  /\ index' = index + 1
  /\ UNCHANGED <<Env, Engine, options, proc, exitCode, tasks>>

\* index.js 306: forEach returns, the event loop takes over
ForEachDone ==
  /\ proc = "dispatch" /\ index = Len(argv)
  /\ proc' = "loop"
  /\ UNCHANGED <<Env, Engine, options, index, exitCode, tasks>>

Positions == DOMAIN tasks

\* Promise jobs run before any child-process or fs callback.
MicrotaskPending == \E i \in Positions : tasks[i].pc \in Ready \cup Settled

\* An await on a returned async function continues.
ResumeAwait ==
  /\ proc = "loop"
  /\ \E i \in Positions :
       /\ tasks[i].pc \in Ready
       /\ ~(tasks[i].pc = "ret_start" /\ tasks[i].verb = "install")
       /\ tasks' = [tasks EXCEPT ![i] = OnReturn(tasks[i])]
  /\ UNCHANGED <<Env, Engine, options, index, proc, exitCode>>

\* index.js 153-176: install continues after startToolchain and reads
\* package.json
ReadPackage ==
  /\ proc = "loop"
  /\ \E i \in Positions, keys \in PackageDeps :
       /\ tasks[i].pc = "ret_start" /\ tasks[i].verb = "install"
       /\ tasks' = [tasks EXCEPT ![i] = InstallListDeps(tasks[i], keys)]
  /\ UNCHANGED <<Env, Engine, options, index, proc, exitCode>>

\* exec's callback (index.js 28-34) for the command a chain awaits
CommandExit ==
  /\ proc = "loop" /\ ~MicrotaskPending
  /\ \E i \in Positions :
       /\ tasks[i].pc \in Awaiting
       /\ \E r \in EngineResults(Last(tasks[i].log)) :
            /\ tasks' = [tasks EXCEPT
                  ![i] = IF r.ok THEN OnResolve(tasks[i], r.out)
                         ELSE Rejected(tasks[i], Last(tasks[i].log))]
            /\ containers' = r.containers
            /\ nextId' = r.nextId
  /\ UNCHANGED <<Env, options, index, proc, exitCode>>

\* exec's callback for the npm ls of one dependency
NpmExit ==
  /\ proc = "loop" /\ ~MicrotaskPending
  /\ \E i \in Positions :
       /\ tasks[i].pc = "in_npm"
       /\ \E k \in 1..Len(tasks[i].deps) :
            /\ tasks[i].deps[k].st = "npm"
            /\ \/ \E lines \in NpmOutputs :
                    tasks' = [tasks EXCEPT
                                ![i] = InstallAfterNpm(tasks[i], k, lines)]
               \/ tasks' = [tasks EXCEPT
                     ![i] = Rejected(tasks[i],
                                     NpmLsCmd(tasks[i].deps[k].name))]
  /\ UNCHANGED <<Env, Engine, options, index, proc, exitCode>>

\* fs.access's callback for one dependency (index.js 186)
AccessCallback ==
  /\ proc = "loop" /\ ~MicrotaskPending
  /\ \E i \in Positions :
       /\ tasks[i].pc = "in_make"
       /\ \E k \in 1..Len(tasks[i].deps), e \in BOOLEAN :
            /\ tasks[i].deps[k].st = "access"
            /\ tasks' = [tasks EXCEPT
                           ![i] = InstallAfterAccess(tasks[i], k, e)]
  /\ UNCHANGED <<Env, Engine, options, index, proc, exitCode>>

\* exec's callback for the make command of one dependency
InstallMakeExit ==
  /\ proc = "loop" /\ ~MicrotaskPending
  /\ \E i \in Positions :
       /\ tasks[i].pc = "in_make"
       /\ \E k \in 1..Len(tasks[i].deps) :
            /\ tasks[i].deps[k].st = "make"
            /\ \E r \in EngineResults(tasks[i].deps[k].cmd) :
                 tasks' = [tasks EXCEPT
                    ![i] = IF r.ok THEN InstallDepDone(tasks[i], k)
                           ELSE Rejected(tasks[i], tasks[i].deps[k].cmd)]
  /\ UNCHANGED <<Env, Engine, options, index, proc, exitCode>>

\* index.js 299-301
ThenExit ==
  /\ proc = "loop"
  /\ \E i \in Positions : tasks[i].pc = "resolved"
  /\ proc' = "exited"
  /\ exitCode' = "0"
  /\ UNCHANGED <<Env, Engine, options, index, tasks>>

\* index.js 302-304
CatchExit ==
  /\ proc = "loop"
  /\ \E i \in Positions : tasks[i].pc = "rejected"
  /\ proc' = "exited"
  /\ exitCode' = "1"
  /\ UNCHANGED <<Env, Engine, options, index, tasks>>

\* No action was invoked: nothing keeps the event loop alive.
LoopEmpty ==
  /\ proc = "loop"
  /\ \A i \in Positions : tasks[i].pc = "none"
  /\ proc' = "exited"
  /\ exitCode' = "0"
  /\ UNCHANGED <<Env, Engine, options, index, tasks>>

Next ==
  \/ SkipFirst
  \/ MountPathFlag
  \/ ByteSwapFlag
  \/ HelpFlag
  \/ RunAction
  \/ CallInherited
  \/ IgnoreArg
  \/ ForEachDone
  \/ ResumeAwait
  \/ ReadPackage
  \/ CommandExit
  \/ NpmExit
  \/ AccessCallback
  \/ InstallMakeExit
  \/ ThenExit
  \/ CatchExit
  \/ LoopEmpty

Spec == Init /\ [][Next]_vars

-----------------------------------------------------------------------------
\* The path translation on its own: inputs drawn from bounded sets, one
\* action that applies index.js 194-202 to them.

SegmentNames == {"node_modules", "a"}

MountPaths == {Cwd, <<"home">>}

InitPath ==
  /\ \E sep \in {"/", "\\"}, mount \in MountPaths, name \in ProjectNames,
        rel \in SeqsUpTo(SegmentNames, MaxDepth) \ {<<>>} :
       tr = [sep |-> sep, mount |-> mount, name |-> name,
             host |-> mount \o rel, out |-> <<>>, done |-> FALSE]
  /\ argv = <<"node", "index.js">>
  /\ isDocker = FALSE
  /\ pathSep = tr.sep
  /\ options = [DefaultOptions(tr.name, FALSE) EXCEPT !.MOUNT_PATH = tr.mount]
  /\ index = 0
  /\ proc = "loop"
  /\ exitCode = "none"
  /\ tasks = [i \in 0..1 |-> NoTask]
  /\ containers = {}
  /\ nextId = 0
  /\ listing = <<>>

Translate ==
  /\ ~tr.done
  /\ tr' = [tr EXCEPT
              !.out = ContainerPath(pathSep, options.MOUNT_PATH,
                                    options.PROJECT_NAME, tr.host),
              !.done = TRUE]
  /\ UNCHANGED <<argv, isDocker, pathSep, options, index, proc, exitCode,
                 tasks, containers, nextId, listing>>

NextPath == Translate

SpecPath == InitPath /\ [][NextPath]_vars

-----------------------------------------------------------------------------
\* The found/absent decision of start and stop on its own: the standard
\* output of the listing is drawn from bounded texts (words of id characters
\* and of white space), one action applies index.js 56-58 and 110-112 to it.

Whitespace == {" ", "\n"}

\* stdout of the listing: the program takes whatever text exec hands over
ListingTexts == SeqsUpTo({"0"} \cup Whitespace, 2)

InitListing ==
  /\ \E verb \in {"start", "stop"} : argv = <<"node", "index.js", verb>>
  /\ isDocker = FALSE
  /\ pathSep \in {"/", "\\"}
  /\ \E name \in ProjectNames, ci \in BOOLEAN :
       options = DefaultOptions(name, ci)
  /\ index = Len(argv)
  /\ proc = "loop"
  /\ exitCode = "none"
  /\ tasks = [i \in 0..(Len(argv) - 1) |->
                IF i = 2 THEN Invoke(argv[3], <<>>) ELSE NoTask]
  /\ containers = {}
  /\ nextId = 0
  /\ tr = NoTranslation
  /\ listing \in ListingTexts

\* exec's callback (index.js 28-30) for the listing: resolve(stdout)
ListingExit ==
  /\ proc = "loop"
  /\ \E i \in Positions :
       /\ tasks[i].pc \in {"st_ls", "stop_ps"}
       /\ tasks' = [tasks EXCEPT ![i] = OnResolve(tasks[i], listing)]
  /\ UNCHANGED <<Env, Engine, options, index, proc, exitCode>>

NextListing == ListingExit

SpecListing == InitListing /\ [][NextListing]_vars

-----------------------------------------------------------------------------
\* Properties

Name == options.PROJECT_NAME

UserPositions == 3..Len(argv)

\* Number of action verbs among the user arguments.
VerbCount == Cardinality({k \in UserPositions : argv[k] \in Verbs})

Invoked(i) == tasks[i].pc # "none"

InFlight(i) == tasks[i].pc \in Awaiting \cup FanOut \cup Ready

IsPrefix(s, u) == Len(s) =< Len(u) /\ s = SubSeq(u, 1, Len(s))

LifecycleVerbs == {"start", "stop", "download", "update"}

\* C1: with IS_DOCKER 'true', start, stop, download and update resolve at
\* once and issue no external command, whatever the arguments and whatever
\* the engine holds.
C1_LifecycleNoOpInContainer ==
  isDocker =>
    \A i \in Positions :
      tasks[i].verb \in LifecycleVerbs =>
        tasks[i].log = <<>> /\ tasks[i].pc = "resolved"

\* C1 witness: inside the container an update was dispatched, returned with
\* nothing issued, and the process exited 0.
C1_Witness ==
  /\ isDocker /\ proc = "exited" /\ exitCode = "0"
  /\ \E i \in Positions :
       tasks[i].verb = "update" /\ tasks[i].pc = "resolved"
       /\ tasks[i].log = <<>>

\* C2: the dispatcher never has the operation chains of two actions in
\* flight at the same time.
C2_OneChainAtATime ==
  \A i, j \in Positions : InFlight(i) /\ InFlight(j) => i = j

\* The container a run of startToolchain has just created.
Fresh == [id |-> ToString(nextId), name |-> Name, running |-> TRUE]

\* C3: outside the container at most one container has the reserved name in
\* every state; when startToolchain calls run one after another (one action
\* per process run), docker run is issued only once no container of that
\* name is left, and a successful call leaves exactly one container, the one
\* it created.
C3_ExactlyOneContainer ==
  ~isDocker =>
    /\ Cardinality(Named(Name)) =< 1
    /\ VerbCount = 1 =>
         \A i \in Positions :
           /\ tasks[i].pc = "st_run" => Named(Name) = {}
           /\ tasks[i].verb \in {"start", "buildDragon", "init", "install"}
              /\ tasks[i].pc = "resolved"
              => Named(Name) = {Fresh} /\ nextId = 1

\* C3 witness: a start that found a container of the name, removed it,
\* created the new one and resolved.
C3_Witness ==
  /\ ~isDocker /\ VerbCount = 1
  /\ \E i \in Positions :
       /\ tasks[i].verb = "start" /\ tasks[i].pc = "resolved"
       /\ Len(tasks[i].log) = 3
       /\ IsRemoveByIdCmd(tasks[i].log[2])
       /\ Named(Name) = {Fresh}

\* C4: outside the container stop issues the remove only when the lookup
\* found a container; on an absent container it issues the lookup alone and
\* resolves; after a successful stop (run on its own) no container of the
\* reserved name exists.
C4_StopRemovesOnlyIfPresent ==
  ~isDocker =>
    \A i \in Positions :
      tasks[i].verb = "stop" =>
        /\ IsPrefix(tasks[i].log, <<StopLookupCmd, StopRemoveCmd>>)
        /\ VerbCount = 1 =>
             /\ tasks[i].pc = "stop_rm" => Named(Name) # {}
             /\ tasks[i].pc = "resolved" => Named(Name) = {}
             /\ tasks[i].pc = "rejected" =>
                  tasks[i].failed = Last(tasks[i].log)

\* C4 witness: stop on an absent container resolved after the lookup alone.
C4_Witness ==
  /\ ~isDocker /\ VerbCount = 1 /\ exitCode = "0"
  /\ \E i \in Positions :
       /\ tasks[i].verb = "stop" /\ tasks[i].pc = "resolved"
       /\ tasks[i].log = <<StopLookupCmd>>
       /\ nextId = 0

Ambiguity ==
  <<"Using same dependency with different versions is not supported!">>

Ambiguous(d) == Len(d.paths) > 1

\* C5: an install one of whose dependencies resolved to more than one
\* distinct path never gets past the ambiguity check: it is rejected as soon
\* as every npm ls has answered, whatever the other dependencies resolved
\* to; paths are deduplicated first, so a path listed twice does not count.
C5_AmbiguousDependencyRejects ==
  \A i \in Positions :
    tasks[i].verb = "install" =>
      LET d == tasks[i].deps
      IN /\ \A k \in 1..Len(d) :
              Cardinality(Range(d[k].paths)) = Len(d[k].paths)
         /\ (\E k \in 1..Len(d) : Ambiguous(d[k])) =>
              /\ tasks[i].pc \in {"in_npm", "rejected"}
              /\ tasks[i].pc = "in_npm" =>
                   \E k \in 1..Len(d) : d[k].st = "npm"
         /\ tasks[i].failed = Ambiguity =>
              \E k \in 1..Len(d) : Ambiguous(d[k])

\* C5 witness: dependencies a and b, a with one path (listed twice), b with
\* two distinct paths: install is rejected for the ambiguity.
C5_Witness ==
  \E i \in Positions :
    /\ tasks[i].verb = "install" /\ tasks[i].pc = "rejected"
    /\ tasks[i].failed = Ambiguity
    /\ Len(tasks[i].deps) = 2
    /\ tasks[i].deps[1].paths = <<HostPathA>>
    /\ tasks[i].deps[2].paths = <<HostPathA, HostPathB>>
    /\ exitCode = "1"

HelpGiven == \E k \in UserPositions : argv[k] = "--help"

\* C6: the exit status is 0 only when every invoked action's chain has
\* completed successfully, and 1 when a chain rejected. (Runs with --help
\* are left out: --help exits 0 at once by design, index.js 284-291.)
C6_ExitStatusFollowsChain ==
  proc = "exited" /\ ~HelpGiven =>
    /\ exitCode = "0" =>
         \A i \in Positions : Invoked(i) => tasks[i].pc = "resolved"
    /\ (\E i \in Positions : tasks[i].pc = "rejected") => exitCode = "1"

\* The translation the specification asks for: "/", the project name, then
\* every segment of the relative path behind a forward slash.
RECURSIVE Slashed(_)
Slashed(segs) ==
  IF segs = <<>> THEN <<>> ELSE <<"/", Head(segs)>> \o Slashed(Tail(segs))

ExpectedPath(name, mount, host) ==
  <<"/", name>> \o Slashed(SubSeq(host, Len(mount) + 1, Len(host)))

\* C7: for every host path strictly under the mount path the translation is
\* /N/<relative path> with forward slashes only (as a directory, with or
\* without the closing slash), for both host separators and every depth.
C7_PathTranslation ==
  tr.done =>
    LET want == ExpectedPath(tr.name, tr.mount, tr.host)
    IN tr.out = want \/ tr.out = want \o <<"/">>

\* What the flags of the argument vector ask for.
ByteSwapGiven == \E k \in UserPositions : argv[k] = "--byte-swap"

MountPathGiven == \E k \in UserPositions : IsMountFlag(argv[k])

FlagsApplied ==
  /\ options.BYTE_SWAP = ByteSwapGiven
  /\ options.MOUNT_PATH = IF MountPathGiven THEN <<"home">> ELSE Cwd

ForEachFinished == proc # "dispatch" /\ index = Len(argv)

IsInstallMake(cmd) ==
  \E k \in 1..Len(cmd) : cmd[k] = "-C"

\* C8 as stated: Options does not change once an action has started.
C8_OptionsFixedOnceStarted ==
  [][(\E i \in Positions : Invoked(i)) => options' = options]_vars

\* C8 amended: once forEach has finished Options holds the value of every
\* flag of the argument vector, wherever the flag stands (so it changes no
\* more), and every command built from the flags (docker run, the make of a
\* dependency) is built from these final values.
C8_FlagsAppliedBeforeUse ==
  /\ ForEachFinished => FlagsApplied
  /\ \A i \in Positions : \A k \in 1..Len(tasks[i].log) :
       LET cmd == tasks[i].log[k]
       IN /\ IsRunCmd(cmd) => FlagsApplied /\ cmd = RunCmd(tasks[i].force)
          /\ tasks[i].verb = "install" /\ IsInstallMake(cmd) =>
               /\ FlagsApplied
               /\ \E d \in 1..Len(tasks[i].deps) :
                    /\ Len(tasks[i].deps[d].paths) = 1
                    /\ cmd = InstallMakeCmd(tasks[i].deps[d].paths[1])

\* C8 witness: 'start --byte-swap': the flag follows the verb and the docker
\* run start issued carries it.
C8_Witness ==
  /\ argv = <<"node", "index.js", "start", "--byte-swap">>
  /\ tasks[2].pc = "st_run"
  /\ \E k \in 1..Len(Last(tasks[2].log)) :
       Last(tasks[2].log)[k] = "N64_BYTE_SWAP=true"

\* Every command the process has issued so far.
AllIssued == UNION {Range(tasks[i].log) : i \in Positions}

\* C9: when the verb is make with trailing arguments A, the process issues
\* docker start NAME, then docker exec NAME make A, and nothing else; inside
\* the container it issues make A and nothing else.
C9_MakeIssuesOnlyMake ==
  Len(argv) >= 3 /\ argv[3] = "make" =>
    LET A == SubSeq(argv, 4, Len(argv))
    IN IF isDocker
         THEN /\ AllIssued \subseteq {LocalMakeCmd(A)}
              /\ IsPrefix(tasks[2].log, <<LocalMakeCmd(A)>>)
         ELSE /\ AllIssued \subseteq {DockerStartCmd, DockerExecMakeCmd(A)}
              /\ IsPrefix(tasks[2].log,
                          <<DockerStartCmd, DockerExecMakeCmd(A)>>)

\* The commands of update after stop has returned.
UpdateTail ==
  <<PushCmd(version)>> \o
  (IF UPDATE_LATEST THEN <<TagLatestCmd, PushCmd("latest")>> ELSE <<>>)

UpdateChains ==
  {<<StopLookupCmd>> \o UpdateTail,
   <<StopLookupCmd, StopRemoveCmd>> \o UpdateTail}

\* C10: outside the container update issues stop's commands, then the push
\* of the version tag once, then (with UPDATE_LATEST) the tag and the push of
\* latest, each only after the one before succeeded; a successful update has
\* issued the whole chain, a failed version push ends it, and when update
\* runs on its own no container of the name is left while it pushes.
C10_UpdatePushes ==
  ~isDocker =>
    \A i \in Positions :
      tasks[i].verb = "update" =>
        /\ \E chain \in UpdateChains : IsPrefix(tasks[i].log, chain)
        /\ tasks[i].pc = "resolved" => tasks[i].log \in UpdateChains
        /\ tasks[i].failed = PushCmd(version) =>
             Last(tasks[i].log) = PushCmd(version)
        /\ tasks[i].pc = "rejected" => tasks[i].failed = Last(tasks[i].log)
        /\ VerbCount = 1 /\ tasks[i].pc \in {"up_push", "up_tag", "up_pushLatest"}
             => Named(Name) = {}

\* C10 witness: an update that removed the container, pushed the version
\* tag, tagged and pushed latest, and exited 0.
C10_Witness ==
  /\ ~isDocker /\ exitCode = "0"
  /\ \E i \in Positions :
       /\ tasks[i].verb = "update" /\ tasks[i].pc = "resolved"
       /\ tasks[i].log = <<StopLookupCmd, StopRemoveCmd, PushCmd(version),
                           TagLatestCmd, PushCmd("latest")>>

\* C11: the self-build flag is true exactly when the project name is
\* 'libdragon' and CI is 'true', in every state of every run; no step of the
\* argument loop (so no flag) changes it, nor the two values it is computed
\* from.
C11_SelfBuildFlag ==
  /\ [](options.SELF_BUILD <=> (options.PROJECT_NAME = "libdragon" /\ options.IS_CI))
  /\ [][/\ options'.SELF_BUILD = options.SELF_BUILD
        /\ options'.PROJECT_NAME = options.PROJECT_NAME
        /\ options'.IS_CI = options.IS_CI]_vars

\* C11 witness: libdragon under CI, both flags given and processed: the
\* self-build flag is still true.
C11_Witness ==
  /\ options.PROJECT_NAME = "libdragon" /\ options.IS_CI
  /\ options.SELF_BUILD
  /\ ForEachFinished /\ ByteSwapGiven /\ MountPathGiven
  /\ options.BYTE_SWAP /\ options.MOUNT_PATH = <<"home">>

\* C12: an argument that is neither a verb nor a flag invokes no action at
\* its position, and a run whose arguments hold no verb issues no command
\* and does not exit with a non-zero status.
C12_UnknownArgsIgnored ==
  /\ \A k \in UserPositions :
       argv[k] \notin Verbs => tasks[k - 1] = NoTask
  /\ VerbCount = 0 => AllIssued = {} /\ exitCode # "1"

\* The image tag of a docker run command line.
RunTag(cmd) ==
  cmd[1 + CHOOSE k \in 1..Len(cmd) : cmd[k] = DOCKER_HUB_NAME]

\* C13: the docker run of a start dispatched from the command line carries
\* the base tag when the self-build flag is true and the version tag
\* otherwise, whatever follows the verb; the docker run of buildDragon, init
\* and install always carries the version tag.
C13_StartImageTag ==
  \A i \in Positions : \A k \in 1..Len(tasks[i].log) :
    LET cmd == tasks[i].log[k]
    IN IsRunCmd(cmd) =>
         /\ tasks[i].verb = "start" =>
              RunTag(cmd) = IF options.SELF_BUILD THEN BASE_VERSION
                            ELSE version
         /\ tasks[i].verb \in {"buildDragon", "init", "install"} =>
              RunTag(cmd) = version

\* A text with no character but white space (the empty text included).
Blank(text) == \A k \in 1..Len(text) : text[k] \in Whitespace

IsRemove(cmd) == IsRemoveByIdCmd(cmd) \/ IsRemoveByNameCmd(cmd)

\* C14: once start or stop has read the listing, it has issued a remove
\* exactly when the listing printed something other than white space: an
\* empty or whitespace-only listing means absent and no remove is issued.
C14_BlankListingMeansAbsent ==
  \A i \in Positions :
    tasks[i].pc \notin {"none", "st_ls", "stop_ps"} =>
      ((\E k \in 1..Len(tasks[i].log) : IsRemove(tasks[i].log[k]))
         <=> ~Blank(listing))

\* What download issues when both pulls succeed.
DownloadPulls ==
  IF options.SELF_BUILD THEN <<PullCmd(BASE_VERSION)>>
  ELSE <<PullCmd(BASE_VERSION), PullCmd(version)>>

\* C15: outside the container download (called by the dispatcher or by
\* install) issues the pull of the base image first and once; it pulls the
\* version image exactly when the self-build flag is false, as its second
\* command and only after the base pull succeeded; a failed base pull ends
\* it.
C15_DownloadPulls ==
  ~isDocker =>
    \A i \in Positions :
      tasks[i].verb \in {"download", "install"} =>
        LET t == tasks[i]
        IN /\ t.log # <<>> /\ t.log[1] = PullCmd(BASE_VERSION)
           /\ \A k \in 2..Len(t.log) :
                /\ t.log[k] # PullCmd(BASE_VERSION)
                /\ t.log[k] = PullCmd(version) =>
                     k = 2 /\ ~options.SELF_BUILD
           /\ t.pc = "dl_base" \/ t.failed = PullCmd(BASE_VERSION) =>
                t.log = <<PullCmd(BASE_VERSION)>>
           /\ t.verb = "download" /\ t.pc = "resolved" =>
                t.log = DownloadPulls
           /\ t.pc \notin {"dl_base", "dl_version"}
              /\ t.failed \notin {PullCmd(BASE_VERSION), PullCmd(version)} =>
                IsPrefix(DownloadPulls, t.log)

\* C15 witness: a self-build download that pulled the base image alone and
\* exited 0.
C15_Witness ==
  /\ ~isDocker /\ options.SELF_BUILD /\ exitCode = "0"
  /\ \E i \in Positions :
       /\ tasks[i].verb = "download" /\ tasks[i].pc = "resolved"
       /\ tasks[i].log = <<PullCmd(BASE_VERSION)>>

SequentialVerbs ==
  {"start", "stop", "download", "make", "buildDragon", "init", "update"}

\* C16: in the chain of a sequential action no command is issued twice; a
\* command that exits non-zero rejects the action and is the last command
\* the chain has issued; a rejected action issues nothing more and never
\* resumes; when the image build of buildDragon or init fails, no lookup,
\* remove or run has been issued and (the action running on its own) the
\* engine's containers are as they were.
C16_FailureIsFatal ==
  /\ [](\A i \in Positions :
          tasks[i].verb \in SequentialVerbs =>
            LET t == tasks[i]
            IN /\ Cardinality(Range(t.log)) = Len(t.log)
               /\ t.pc = "rejected" => t.failed = Last(t.log)
               /\ t.pc # "rejected" => t.failed = <<>>
               /\ t.failed \in {BuildDragonCmd, BuildBaseCmd} =>
                    /\ \A k \in 1..Len(t.log) :
                         /\ ~IsLookupCmd(t.log[k])
                         /\ ~IsRemove(t.log[k])
                         /\ ~IsRunCmd(t.log[k])
                    /\ VerbCount = 1 =>
                         nextId = 0 /\ \A c \in containers : c.id = "0")
  /\ [][\A i \in Positions :
          tasks[i].pc = "rejected" => tasks'[i] = tasks[i]]_vars

\* C16 witness: init built the base image, the build of the libdragon image
\* failed: nothing else was issued, the container left from an earlier run
\* is still there, and the process exited 1.
C16_Witness ==
  /\ ~isDocker /\ VerbCount = 1 /\ exitCode = "1"
  /\ Named(Name) # {} /\ nextId = 0
  /\ \E i \in Positions :
       /\ tasks[i].verb = "init" /\ tasks[i].pc = "rejected"
       /\ tasks[i].failed = BuildDragonCmd
       /\ tasks[i].log = <<BuildBaseCmd, BuildDragonCmd>>

\* Positions in a log of the per-dependency make commands of install.
MakesIn(log) == {k \in 1..Len(log) : IsInstallMake(log[k])}

\* C17: in install a per-dependency make is issued only after download and
\* startToolchain have returned (outside the container: after the pulls and
\* the docker run) and after every npm ls has answered with one path each;
\* nothing but such makes is issued from then on; exactly the dependencies
\* whose Makefile was found have issued one, the others none; install
\* resolves exactly when every dependency is done and is rejected with the
\* make that failed while that dependency is not done.
C17_InstallOrdering ==
  \A i \in Positions :
    tasks[i].verb = "install" =>
      LET t == tasks[i]
          d == t.deps
          makes == MakesIn(t.log)
      IN /\ makes # {} =>
              /\ t.pc \in {"in_make", "resolved", "rejected"}
              /\ \A k \in 1..Len(d) :
                   /\ d[k].st \in {"access", "make", "done"}
                   /\ Len(d[k].paths) = 1
                   /\ \E j \in 1..Len(t.log) :
                        t.log[j] = NpmLsCmd(d[k].name)
              /\ \A j \in 1..Len(t.log), k \in makes :
                   j \notin makes => j < k
              /\ ~isDocker =>
                   /\ IsPrefix(DownloadPulls, t.log)
                   /\ \E j \in 1..Len(t.log) : IsRunCmd(t.log[j])
         /\ Cardinality(makes) =
              Cardinality({k \in 1..Len(d) : d[k].cmd # <<>>})
         /\ \A k \in 1..Len(d) :
              /\ d[k].st = "make" => d[k].cmd # <<>>
              /\ d[k].st \in {"npm", "listed", "access"} => d[k].cmd = <<>>
              /\ d[k].cmd # <<>> =>
                   d[k].cmd = InstallMakeCmd(d[k].paths[1])
         /\ t.pc = "resolved" => AllDeps(t, "done")
         /\ d # <<>> /\ AllDeps(t, "done") => t.pc = "resolved"
         /\ t.pc = "rejected" /\ IsInstallMake(t.failed) =>
              \E k \in 1..Len(d) : d[k].st = "make" /\ d[k].cmd = t.failed

\* C17 witness: install has pulled, started the container and resolved the
\* paths of two dependencies; the makes of both are in flight at once.
C17_Witness ==
  /\ ~isDocker
  /\ \E i \in Positions :
       /\ tasks[i].verb = "install" /\ tasks[i].pc = "in_make"
       /\ Len(tasks[i].deps) = 2
       /\ tasks[i].deps[1].st = "make" /\ tasks[i].deps[2].st = "make"
       /\ Cardinality(MakesIn(tasks[i].log)) = 2

\* C18: while some dependency of an install has more than one distinct
\* path, no make has been issued for any dependency and none has got as far
\* as the test for its Makefile; once every npm ls has answered install is
\* rejected; an install rejected for the ambiguity has issued no make.
C18_AmbiguityGatesInstalls ==
  \A i \in Positions :
    tasks[i].verb = "install" =>
      LET t == tasks[i]
          d == t.deps
      IN /\ (\E k \in 1..Len(d) : Ambiguous(d[k])) =>
              /\ MakesIn(t.log) = {}
              /\ \A k \in 1..Len(d) :
                   d[k].st \in {"npm", "listed"} /\ d[k].cmd = <<>>
              /\ AllDeps(t, "listed") => t.pc = "rejected"
         /\ t.failed = Ambiguity =>
              t.pc = "rejected" /\ MakesIn(t.log) = {}

\* C18 witness: the first dependency has two distinct paths, the second
\* exactly one: install is rejected and no make was issued for either.
C18_Witness ==
  \E i \in Positions :
    /\ tasks[i].verb = "install" /\ tasks[i].pc = "rejected"
    /\ tasks[i].failed = Ambiguity
    /\ Len(tasks[i].deps) = 2
    /\ Len(tasks[i].deps[1].paths) = 2
    /\ Len(tasks[i].deps[2].paths) = 1
    /\ MakesIn(tasks[i].log) = {}

\* C19: with IS_DOCKER 'true' no command the process issues goes to the
\* container engine, whatever the arguments.
C19_NoDockerInContainer ==
  isDocker => \A cmd \in AllIssued : ~IsDockerCmd(cmd)

\* The mount path the argument vector asks for.
FlagMountPath == IF MountPathGiven THEN <<"home">> ELSE Cwd

HasWord(cmd, w) == \E k \in 1..Len(cmd) : cmd[k] = w

\* The words of a docker run between source and target: the mounted path.
MountSource(cmd) ==
  LET s == CHOOSE k \in 1..Len(cmd) : cmd[k] = "source"
      e == CHOOSE k \in 1..Len(cmd) : cmd[k] = "target"
  IN SubSeq(cmd, s + 1, e - 1)

EndsWith(cmd, tail) ==
  Len(tail) =< Len(cmd) /\
  SubSeq(cmd, Len(cmd) - Len(tail) + 1, Len(cmd)) = tail

\* C20: a docker run, and a per-dependency make of install, is in the log
\* of an action only once the argument loop has gone through the whole
\* argument vector, and its text carries what the flags of the vector ask
\* for wherever they stand: N64_BYTE_SWAP=true exactly when --byte-swap is
\* given, the mount source and the container path computed from the mount
\* path --mount-path gives (the working directory without it).
C20_FlagCommandsBuiltAfterLoop ==
  \A i \in Positions : \A k \in 1..Len(tasks[i].log) :
    LET cmd == tasks[i].log[k]
    IN /\ IsRunCmd(cmd) =>
            /\ ForEachFinished
            /\ HasWord(cmd, "N64_BYTE_SWAP=true") <=> ByteSwapGiven
            /\ MountSource(cmd) = JoinWith(FlagMountPath, pathSep)
       /\ tasks[i].verb = "install" /\ IsInstallMake(cmd) =>
            /\ ForEachFinished
            /\ \E d \in 1..Len(tasks[i].deps) :
                 EndsWith(cmd,
                          ContainerPath(pathSep, FlagMountPath, Name,
                                        tasks[i].deps[d].paths[1])
                          \o <<"install">>)

\* C20 witness: 'install --mount-path=..': the flag follows the verb and the
\* make of the dependency is addressed relative to the mount path it gives.
C20_Witness ==
  /\ argv = <<"node", "index.js", "install", "--mount-path=..">>
  /\ pathSep = "/"
  /\ \E k \in MakesIn(tasks[2].log) :
       EndsWith(tasks[2].log[k],
                <<"/", Name, "/", "proj", "/", "node_modules", "/", "a", "/",
                  "install">>)

====
